---- MODULE Spec2Model ----
(***************************************************************************)
(* Control-flow-graph analyses of alamatic/ossa (package oana): the        *)
(* predecessor table, the dominators table computed by the forward data    *)
(* flow driver, natural loops and their bodies, over the block graph       *)
(* implied by the terminators of package ossa.                             *)
(*                                                                         *)
(* Blocks are identities (pointers in the source); here they are strings.  *)
(* Go maps are functions whose DOMAIN is the key set; ranging over a Go    *)
(* map or set has no defined order, so every such loop whose order can     *)
(* matter is modelled as a choice over all orders.                         *)
(***************************************************************************)
EXTENDS Integers, Sequences, FiniteSets, TLC

VARIABLES
    term,        \* the graph: block -> its Terminator
    start,       \* the start block handed to the analyses
    pc,          \* which function of the pipeline is running
    q,           \* the blockLIFO worklist of the running function
    seen,        \* FindPredecessors: blocks already popped
    preds,       \* FindPredecessors: ret, later the table handed on
    t,           \* dominatorsAnalyzer.t
    loops,       \* FindNaturalLoops: the slice "to"
    l,           \* FindBody: the receiving loop
    body,        \* FindBody: ret
    schedule,    \* the changeCount map the logging analyzer was built with
    changeCount, \* loggingBlockAnalyzer.changeCount
    calls,       \* loggingBlockAnalyzer.calls
    fifo,        \* a blockFIFO driven by its callers
    call,        \* the last call made on its own: method, argument, result
    blocks,      \* the BasicBlocks a Builder works on: Instructions, Terminator
    builder,     \* the Builder its caller holds
    todo,        \* AddReachable: the work stack
    reached      \* AddReachable: the set "to"

vars == <<term, start, pc, q, seen, preds, t, loops, l, body, schedule, changeCount, calls,
          fifo, call, blocks, builder, todo, reached>>

\* ---------------------------------------------------------------- bounds

\* Number of blocks of the exhaustively enumerated graphs.
NumBlocks == 3

\* Largest initial change count of the logging analyzer.
MaxChange == 2

\* Number of blocks of the graphs enumerated for ForwardDataFlow with an
\* analyzer of any behaviour.
FlowBlocks == 2

\* Number of blocks handed to the stack driven on its own; the queue driven
\* on its own is handed NumBlocks blocks.
WorklistBlocks == 4

\* Largest number of cases of a switch built on its own.
MaxCases == 3

\* Largest length of the slice successors are appended to.
MaxPrior == 2

\* Operation codes tried reach this far below opInvalid and above
\* opEndTerminators.
OpMargin == 2

\* Largest number of instructions appended to a block through a Builder.
MaxInstrs == 2

\* ---------------------------------------------------------------- helpers

Nil == "nil"

BlockNames == <<"b1", "b2", "b3", "b4", "b5", "b6">>

EmptyMap == [x \in {} |-> {}]

\* m[k] of a Go map of sets: a missing key reads as the nil (empty) set.
Lookup(m, k) == IF k \in DOMAIN m THEN m[k] ELSE {}

\* m[k] of a Go map of ints: a missing key reads as 0.
LookupCount(m, k) == IF k \in DOMAIN m THEN m[k] ELSE 0

MapPut(m, k, v) == [x \in (DOMAIN m) \cup {k} |-> IF x = k THEN v ELSE m[x]]

Reverse(s) == [i \in 1..Len(s) |-> s[Len(s) + 1 - i]]

Range(s) == {s[i] : i \in 1..Len(s)}

\* The sequences of members of B of length up to n.
SeqsUpTo(B, n) == UNION {[1..k -> B] : k \in 0..n}

\* All orders in which the members of set S can be enumerated.
Orders(S) == {s \in [1..Cardinality(S) -> S] : Range(s) = S}

\* ---------------------------------------------------------------- operations

opInvalid == 0

OpGlobalSym == 1

OpLocalSym == 2

OpArgument == 3

OpAuxLiteral == 4

OpPhi == 5

OpLoad == 6

OpStore == 7

OpCall == 8

opBasicBlock == 9

opEndValues == 10

OpJump == 11

OpBranch == 12

OpSwitch == 13

OpReturn == 14

OpYield == 15

OpAwait == 16

OpUnreachable == 17

opEndTerminators == 18

\* Mutant: the split value itself counts as a value operation.
Value_Inclusive(o) == o > opInvalid /\ o <= opEndValues

Value(o) == o > opInvalid /\ o < opEndValues

Terminator(o) == o > opEndValues /\ o < opEndTerminators

Valid(o) == Value(o) \/ Terminator(o)

\* ---------------------------------------------------------------- values

\* A *Value is an identity. NewValue is the node a factory allocates with
\* &Value{...}: it is none of the values that existed before the call.
NewValue == "v"

\* Load(ref): the node and its fields.
Load(ref) == [ptr |-> NewValue, op |-> OpLoad, args |-> <<ref>>]

\* Store(val, ref): v.args[0] = v stores the node itself, v.args[1] = ref.
Store(val, ref) == [ptr |-> NewValue, op |-> OpStore, args |-> <<NewValue, ref>>]

\* ---------------------------------------------------------------- terminators

\* The outcome of a call that aborts the program (a Go panic).
Panic == "panic"

\* In place of the slice that a call which panics never returns.
NoSlice == <<Panic>>

\* The argument slice handed out is empty, whether it is backed by argsBuf
\* or newly made.
bufForArgs(capacity) == <<>>

Jump(target) == [op |-> OpJump, args |-> <<target>>]

Branch(trueTarget, falseTarget) == [op |-> OpBranch, args |-> <<trueTarget, falseTarget>>]

\* Mutant: the default target is put after the cases.
Switch_DefaultLast(defTarget, cases) ==
    [op |-> OpSwitch, args |-> Append(cases, defTarget)]

Switch(defTarget, cases) ==
    [op |-> OpSwitch, args |-> Append(bufForArgs(Len(cases) + 1), defTarget) \o cases]

Return == [op |-> OpReturn, args |-> <<Nil>>]

Yield(resume) == [op |-> OpYield, args |-> <<resume>>]

Await(resume) == [op |-> OpAwait, args |-> <<resume>>]

Unreachable == [op |-> OpUnreachable, args |-> <<>>]

\* Mutant: OpAwait has no case.
AppendSuccessors_NoAwait(tm, to) ==
    CASE tm.op = OpJump -> Append(to, tm.args[1])
      [] tm.op = OpBranch -> to \o <<tm.args[1], tm.args[2]>>
      [] tm.op = OpSwitch -> to \o tm.args
      [] tm.op \in {OpReturn, OpUnreachable} -> to
      [] tm.op = OpYield -> Append(to, tm.args[1])
      [] OTHER -> NoSlice

\* The default case panics, with one message for a terminator operation
\* that has no case and another for a non-terminator operation.
AppendSuccessors(tm, to) ==
    CASE tm.op = OpJump -> Append(to, tm.args[1])
      [] tm.op = OpBranch -> to \o <<tm.args[1], tm.args[2]>>
      [] tm.op = OpSwitch -> to \o tm.args
      [] tm.op \in {OpReturn, OpUnreachable} -> to
      [] tm.op \in {OpYield, OpAwait} -> Append(to, tm.args[1])
      [] OTHER -> NoSlice

\* The successors of block b in terminator order.
Successors(b) == AppendSuccessors(term[b], <<>>)

\* ---------------------------------------------------------------- blockLIFO

newBlockLIFO == [items |-> <<>>, present |-> {}]

\* Mutant: the block is pushed whether it is stored or not.
LIFO_Add_Push(s, block) ==
    [items |-> Append(s.items, block), present |-> s.present \cup {block}]

LIFO_Add(s, block) ==
    IF block \in s.present
    THEN s
    ELSE [items |-> Append(s.items, block), present |-> s.present \cup {block}]

LIFO_Has(s, block) == block \in s.present

LIFO_Empty(s) == Len(s.items) = 0

LIFO_Length(s) == Len(s.items)

RECURSIVE SwapLoop(_, _, _, _)
\* for i := 0; i < c; i++ { items[i], items[l-i-1] = items[l-i-1], items[i] }
\* on a slice of length len whose first element is items[1] here.
SwapLoop(items, i, c, len) ==
    IF i < c
    THEN SwapLoop([items EXCEPT ![i + 1] = items[len - i], ![len - i] = items[i + 1]],
                  i + 1, c, len)
    ELSE items

\* Mutant: the whole stack is reversed.
LIFO_ReverseTopN_Whole(s, n) == [s EXCEPT !.items = Reverse(s.items)]

\* ReverseTopN for n within the length: the slice items[l-n:] shares its
\* elements with q.items and is reversed in place by swaps.
LIFO_ReverseTopN(s, n) ==
    LET len == Len(s.items)
        items == SubSeq(s.items, len - n + 1, len)
    IN [s EXCEPT !.items =
            SubSeq(s.items, 1, len - n)
                \o SwapLoop(items, 0, Len(items) \div 2, Len(items))]

LIFO_Peek(s) == IF LIFO_Empty(s) THEN Nil ELSE s.items[Len(s.items)]

\* The stack after Next(); Next returns LIFO_Peek of the stack before.
LIFO_Next(s) ==
    IF LIFO_Peek(s) = Nil
    THEN s
    ELSE [items |-> SubSeq(s.items, 1, Len(s.items) - 1),
          present |-> s.present \ {LIFO_Peek(s)}]

RECURSIVE AddAll(_, _)
\* Add the blocks of sequence bs to the stack, in order.
AddAll(s, bs) == IF bs = <<>> THEN s ELSE AddAll(LIFO_Add(s, Head(bs)), Tail(bs))

\* Mutant: the successors are added last to first.
AddSuccessors_Backwards(s, block) == AddAll(s, Reverse(Successors(block)))

\* block.AddSuccessors(q) with a stack as the adder.
AddSuccessors(s, block) == AddAll(s, Successors(block))

\* ---------------------------------------------------------------- blockFIFO

\* chain holds the blocks of the entries linked from q.next, in link order;
\* end is the position in chain of the entry q.end points to, 0 for nil.
newblockFIFO == [chain |-> <<>>, end |-> 0, present |-> {}]

\* Mutant: the presence test is skipped.
FIFO_Add_Always(s, block) ==
    [chain |-> Append(s.chain, block), end |-> Len(s.chain) + 1,
     present |-> s.present \cup {block}]

\* q.end.next = &entry cuts whatever followed the end entry; on a nil end
\* q.next = &entry replaces the chain.
FIFO_Add(s, block) ==
    IF block \in s.present
    THEN s
    ELSE IF s.end # 0
    THEN [chain |-> Append(SubSeq(s.chain, 1, s.end), block), end |-> s.end + 1,
          present |-> s.present \cup {block}]
    ELSE [chain |-> <<block>>, end |-> 1, present |-> s.present \cup {block}]

FIFO_Has(s, block) == block \in s.present

FIFO_Empty(s) == s.chain = <<>>

\* return q.next.block: q.next is nil on an empty queue, and the field read
\* through it aborts.
FIFO_Peek(s) == IF s.chain = <<>> THEN Panic ELSE s.chain[1]

\* What Next() returns.
FIFO_NextBlock(s) == IF s.chain = <<>> THEN Nil ELSE s.chain[1]

\* Mutant: the block returned stays in the set of stored blocks.
FIFO_Next_Present(s) ==
    IF s.chain = <<>>
    THEN s
    ELSE [chain |-> Tail(s.chain),
          end |-> IF Tail(s.chain) = <<>> THEN 0 ELSE s.end - 1,
          present |-> s.present]

\* The queue after Next().
FIFO_Next(s) ==
    IF s.chain = <<>>
    THEN s
    ELSE [chain |-> Tail(s.chain),
          end |-> IF Tail(s.chain) = <<>> THEN 0 ELSE s.end - 1,
          present |-> s.present \ {s.chain[1]}]

NoCall == [method |-> "none", arg |-> Nil, ret |-> Nil]

\* ---------------------------------------------------------------- graphs

GenBlocks == {BlockNames[i] : i \in 1..NumBlocks}

Terminators(B) ==
    {Return} \cup {Jump(x) : x \in B} \cup {Branch(x, y) : x \in B, y \in B}

GenGraphs == [GenBlocks -> Terminators(GenBlocks)]

\* The loop of the tests of data flow, predecessors and dominators.
Loop4 ==
    [b \in {"entry", "loopHeader", "loopBody", "exit"} |->
        CASE b = "entry" -> Jump("loopHeader")
          [] b = "loopHeader" -> Branch("loopBody", "exit")
          [] b = "loopBody" -> Jump("loopHeader")
          [] b = "exit" -> Return]

\* The loop of the natural loops test.
Loop5 ==
    [b \in {"entry", "loopHeader", "loopBody", "loopTail", "exit"} |->
        CASE b = "entry" -> Jump("loopHeader")
          [] b = "loopHeader" -> Branch("loopBody", "exit")
          [] b = "loopBody" -> Jump("loopTail")
          [] b = "loopTail" -> Jump("loopHeader")
          [] b = "exit" -> Return]

\* Two branches that join again, and a variant whose join jumps back.
Diamond ==
    [b \in {"entry", "left", "right", "join"} |->
        CASE b = "entry" -> Branch("left", "right")
          [] b = "left" -> Jump("join")
          [] b = "right" -> Jump("join")
          [] b = "join" -> Return]

DiamondLoop == [Diamond EXCEPT !["join"] = Jump("left")]

\* A three-way switch.
SwitchGraph ==
    [b \in {"entry", "c0", "c1", "c2"} |->
        CASE b = "entry" -> Switch("c0", <<"c1", "c2">>)
          [] b = "c0" -> Jump("c2")
          [] b = "c1" -> Yield("c2")
          [] b = "c2" -> Unreachable]

\* The start blocks tried: renaming blocks changes nothing, so the enumerated
\* graphs are entered at their first block only.
Starts(g) == IF BlockNames[1] \in DOMAIN g THEN {BlockNames[1]} ELSE DOMAIN g

\* A branch whose first target branches back to it and to itself.
TwoBranches ==
    [b \in {"b1", "b2", "b3"} |->
        CASE b = "b1" -> Branch("b2", "b3")
          [] b = "b2" -> Branch("b1", "b2")
          [] b = "b3" -> Return]

\* A loop from back to entry around a loop from back to head, with a block
\* that loops on itself.
SpinLoop ==
    [b \in {"entry", "head", "spin", "back"} |->
        CASE b = "entry" -> Jump("head")
          [] b = "head" -> Branch("spin", "back")
          [] b = "spin" -> Branch("spin", "back")
          [] b = "back" -> Branch("entry", "head")]

Graphs == GenGraphs \cup {Loop4, Loop5, Diamond, DiamondLoop, SwitchGraph, SpinLoop}

\* ---------------------------------------------------------------- FindPredecessors

\* Mutant: the entry is overwritten instead of added to.
AddPred_Overwrite(ret, succ, pred) == MapPut(ret, succ, {pred})

\* ret[succ] is made if it does not exist, and pred is added to it.
AddPred(ret, succ, pred) == MapPut(ret, succ, Lookup(ret, succ) \cup {pred})

\* Mutant: the successor is queued whether it was seen or not.
Enqueue_Seen(s, sn, succ) == LIFO_Add(s, succ)

\* if !seen.Has(succ) { q.Add(succ) }
Enqueue(s, sn, succ) == IF succ \notin sn THEN LIFO_Add(s, succ) ELSE s

RECURSIVE PredsCallback(_, _, _, _, _)
\* The callback FindPredecessors hands to pred.AddSuccessors, run for each
\* successor of pred in terminator order: ret[succ] gains pred, and succ is
\* queued unless it was seen.
PredsCallback(ret, s, sn, pred, succs) ==
    IF succs = <<>>
    THEN [ret |-> ret, q |-> s]
    ELSE PredsCallback(AddPred(ret, Head(succs), pred), Enqueue(s, sn, Head(succs)),
                       sn, pred, Tail(succs))

\* One iteration of the loop "for !q.Empty()" of FindPredecessors.
FindPredecessorsStep ==
    /\ pc = "FindPredecessors"
    /\ ~LIFO_Empty(q)
    /\ LET pred == LIFO_Peek(q)
           r == PredsCallback(preds, LIFO_Next(q), seen \cup {pred}, pred, Successors(pred))
       IN /\ seen' = seen \cup {pred}
          /\ preds' = r.ret
          /\ q' = r.q
    /\ UNCHANGED <<term, start, pc, t, loops, l, body, schedule, changeCount, calls, fifo, call, blocks, builder, todo, reached>>

\* FindPredecessors returns ret; FindDominators makes its table and
\* ForwardDataFlow seeds its worklist with start.
FindPredecessorsReturn ==
    /\ pc = "FindPredecessors"
    /\ LIFO_Empty(q)
    /\ pc' = "FindDominators"
    /\ t' = EmptyMap
    /\ q' = LIFO_Add(newBlockLIFO, start)
    /\ UNCHANGED <<term, start, seen, preds, loops, l, body, schedule, changeCount, calls, fifo, call, blocks, builder, todo, reached>>

\* Mutant: the set of seen blocks outlives the call.
MakeSeen_Stale == seen

\* seen := make(ossa.BasicBlockSet)
MakeSeen == {}

\* FindPredecessors returns ret to a caller that keeps it and calls
\* FindPredecessors(start) once more.
FindPredecessorsAgain ==
    /\ pc = "FindPredecessors"
    /\ LIFO_Empty(q)
    /\ call.method # "FindPredecessors"
    /\ call' = [method |-> "FindPredecessors", arg |-> start, ret |-> preds]
    /\ preds' = EmptyMap
    /\ seen' = MakeSeen
    /\ q' = LIFO_Add(newBlockLIFO, start)
    /\ UNCHANGED <<term, start, pc, t, loops, l, body, schedule, changeCount, calls, fifo, blocks, builder, todo, reached>>

\* The second call returns.
FindPredecessorsTwiceReturn ==
    /\ pc = "FindPredecessors"
    /\ LIFO_Empty(q)
    /\ call.method = "FindPredecessors"
    /\ pc' = "twice"
    /\ UNCHANGED <<term, start, q, seen, preds, t, loops, l, body, schedule, changeCount, calls, fifo, call, blocks, builder, todo, reached>>

\* ---------------------------------------------------------------- FindDominators

\* pd.AddBlocksTo(s): every member of pd is added to s.
AddBlocksTo(pd, s) == s \cup pd

\* Mutant: nothing is removed.
RemoveMissing_Keep(s, pd) == s

\* for b := range s { if !pd.Has(b) { s.Remove(b) } }
RemoveMissing(s, pd) == {b \in s : b \in pd}

\* Mutant: the block is not added to its own set.
SelfAdd_Skip(s, block) == s

\* s.Add(block)
SelfAdd(s, block) == s \cup {block}

RECURSIVE RangePreds(_, _, _, _, _)
\* The loop "for p := range a.preds[block]" of AnalyzeBlock, with the
\* predecessors enumerated in the given order. tt is the table without the
\* entry of block, which is s itself (a.t[block] aliases s).
RangePreds(tt, block, s, first, order) ==
    IF order = <<>>
    THEN s
    ELSE LET p == Head(order)
             completed == p = block \/ p \in DOMAIN tt
             pd == IF p = block THEN s ELSE tt[p]
         IN IF ~completed
            THEN RangePreds(tt, block, s, first, Tail(order))
            ELSE IF first
            THEN RangePreds(tt, block, AddBlocksTo(pd, s), FALSE, Tail(order))
            ELSE RangePreds(tt, block, RemoveMissing(s, pd), FALSE, Tail(order))

\* Mutant: no visit reports a change.
AnalyzeBlock_Unchanged(tt, pr, block, order) ==
    [t |-> MapPut(tt, block,
                  SelfAdd(RangePreds(tt, block, Lookup(tt, block), TRUE, order), block)),
     changed |-> FALSE]

\* Mutant: every visit reports a change.
AnalyzeBlock_Changed(tt, pr, block, order) ==
    [t |-> MapPut(tt, block,
                  SelfAdd(RangePreds(tt, block, Lookup(tt, block), TRUE, order), block)),
     changed |-> TRUE]

\* dominatorsAnalyzer.AnalyzeBlock: the table after the visit and the result.
AnalyzeBlock(tt, pr, block, order) ==
    LET s0 == Lookup(tt, block)
        priorLen == Cardinality(s0)
        s1 == RangePreds(tt, block, s0, TRUE, order)
        s2 == SelfAdd(s1, block)
    IN [t |-> MapPut(tt, block, s2), changed |-> Cardinality(s2) # priorLen]

\* Mutant: the successors are added whatever the visit reported.
FlowPush_Always(s, block, changed) ==
    LET s1 == AddSuccessors(s, block)
    IN LIFO_ReverseTopN(s1, LIFO_Length(s1) - LIFO_Length(s))

\* Mutant: the newly added span is not reversed.
FlowPush_NoReverse(s, block, changed) == IF changed THEN AddSuccessors(s, block) ELSE s

\* The body of "if changed" of ForwardDataFlow: the successors are added
\* and the newly added span is reversed.
FlowPush(s, block, changed) ==
    IF changed
    THEN LET len == LIFO_Length(s)
             s1 == AddSuccessors(s, block)
         IN LIFO_ReverseTopN(s1, LIFO_Length(s1) - len)
    ELSE s

\* One iteration of ForwardDataFlow's loop with the dominators analyzer.
DominatorsVisit ==
    /\ pc = "FindDominators"
    /\ ~LIFO_Empty(q)
    /\ LET block == LIFO_Peek(q)
       IN \E order \in Orders(Lookup(preds, block)) :
            LET r == AnalyzeBlock(t, preds, block, order)
            IN /\ t' = r.t
               /\ q' = FlowPush(LIFO_Next(q), block, r.changed)
    /\ UNCHANGED <<term, start, pc, seen, preds, loops, l, body, schedule, changeCount, calls, fifo, call, blocks, builder, todo, reached>>

\* ForwardDataFlow and FindDominators return; FindNaturalLoops(doms, nil)
\* starts to range over the table.
FindDominatorsReturn ==
    /\ pc = "FindDominators"
    /\ LIFO_Empty(q)
    /\ pc' = "FindNaturalLoops"
    /\ loops' = <<>>
    /\ UNCHANGED <<term, start, q, seen, preds, t, l, body, schedule, changeCount, calls, fifo, call, blocks, builder, todo, reached>>

\* ---------------------------------------------------------------- FindNaturalLoops

RECURSIVE LoopsOf_Every(_, _, _)
\* Mutant: every successor is taken for the head of a loop.
LoopsOf_Every(block, blockDoms, succs) ==
    IF succs = <<>>
    THEN <<>>
    ELSE <<[Head |-> Head(succs), Tail |-> block]>>
            \o LoopsOf_Every(block, blockDoms, Tail(succs))

RECURSIVE LoopsOf_Swapped(_, _, _)
\* Mutant: head and tail of the loops found are exchanged.
LoopsOf_Swapped(block, blockDoms, succs) ==
    IF succs = <<>>
    THEN <<>>
    ELSE IF Head(succs) \in blockDoms
    THEN <<[Head |-> block, Tail |-> Head(succs)]>>
            \o LoopsOf_Swapped(block, blockDoms, Tail(succs))
    ELSE LoopsOf_Swapped(block, blockDoms, Tail(succs))

RECURSIVE LoopsOf(_, _, _)
\* The loops appended for one block: one per successor, in terminator order,
\* that is a member of the block's dominators.
LoopsOf(block, blockDoms, succs) ==
    IF succs = <<>>
    THEN <<>>
    ELSE IF Head(succs) \in blockDoms
    THEN <<[Head |-> Head(succs), Tail |-> block]>> \o LoopsOf(block, blockDoms, Tail(succs))
    ELSE LoopsOf(block, blockDoms, Tail(succs))

RECURSIVE RangeDoms_Fresh(_, _, _)
\* Mutant: the loops found are returned in a slice of their own.
RangeDoms_Fresh(doms, to, order) ==
    IF order = <<>>
    THEN <<>>
    ELSE LoopsOf(Head(order), doms[Head(order)], Successors(Head(order)))
            \o RangeDoms_Fresh(doms, to, Tail(order))

RECURSIVE RangeDoms(_, _, _)
\* The loop "for block, blockDoms := range doms" with the keys enumerated in
\* the given order: the slice "to" after it.
RangeDoms(doms, to, order) ==
    IF order = <<>>
    THEN to
    ELSE RangeDoms(doms,
                   to \o LoopsOf(Head(order), doms[Head(order)], Successors(Head(order))),
                   Tail(order))

\* FindNaturalLoops(doms, to)
FindNaturalLoops ==
    /\ pc = "FindNaturalLoops"
    /\ \E order \in Orders(DOMAIN t) : loops' = RangeDoms(t, loops, order)
    /\ pc' = "FindNaturalLoopsDone"
    /\ UNCHANGED <<term, start, q, seen, preds, t, l, body, schedule, changeCount, calls, fifo, call, blocks, builder, todo, reached>>

\* Slices a caller may hand to FindNaturalLoops as "to": up to MaxPrior loops
\* it holds already.
PriorLoops ==
    SeqsUpTo({[Head |-> BlockNames[1], Tail |-> BlockNames[2]],
              [Head |-> BlockNames[2], Tail |-> BlockNames[1]]}, MaxPrior)

\* ForwardDataFlow and FindDominators return, and the caller hands the table
\* to FindNaturalLoops together with a slice of its own.
FindDominatorsReturnTo ==
    /\ pc = "FindDominators"
    /\ LIFO_Empty(q)
    /\ pc' = "FindNaturalLoops"
    /\ \E to \in PriorLoops :
        /\ loops' = to
        /\ call' = [method |-> "FindNaturalLoops", arg |-> [doms |-> t, to |-> to], ret |-> Nil]
    /\ UNCHANGED <<term, start, q, seen, preds, t, l, body, schedule, changeCount, calls, fifo, blocks, builder, todo, reached>>

\* ---------------------------------------------------------------- FindBody

NoLoop == [Head |-> Nil, Tail |-> Nil]

\* Mutant: the result does not start with the head.
NewBodySet_Empty(lp) == {}

\* ret := ossa.NewBasicBlockSet(l.Head)
NewBodySet(lp) == {lp.Head}

\* loops[i].FindBody(preds) is called: ret holds the head, the worklist the tail.
FindBodyCall ==
    /\ pc = "FindNaturalLoopsDone"
    /\ \E i \in 1..Len(loops) :
        /\ l' = loops[i]
        /\ body' = NewBodySet(loops[i])
        /\ q' = LIFO_Add(newBlockLIFO, loops[i].Tail)
    /\ pc' = "FindBody"
    /\ UNCHANGED <<term, start, seen, preds, t, loops, schedule, changeCount, calls, fifo, call, blocks, builder, todo, reached>>

\* The body of the loop "for !q.Empty()" of FindBody: block is popped and, if
\* it is not in ret, added to it and its predecessors pushed in the order given.
FindBodyIter(ret, s, pr, order) ==
    IF LIFO_Peek(s) \notin ret
    THEN [ret |-> ret \cup {LIFO_Peek(s)}, q |-> AddAll(LIFO_Next(s), order)]
    ELSE [ret |-> ret, q |-> LIFO_Next(s)]

\* One iteration of FindBody's loop; the predecessors of the popped block are
\* enumerated, if they are, in any order.
FindBodyStep ==
    /\ pc = "FindBody"
    /\ ~LIFO_Empty(q)
    /\ \E order \in Orders(IF LIFO_Peek(q) \in body THEN {} ELSE Lookup(preds, LIFO_Peek(q))) :
        LET r == FindBodyIter(body, q, preds, order)
        IN /\ body' = r.ret
           /\ q' = r.q
    /\ UNCHANGED <<term, start, pc, seen, preds, t, loops, l, schedule, changeCount, calls, fifo, call, blocks, builder, todo, reached>>

FindBodyReturn ==
    /\ pc = "FindBody"
    /\ LIFO_Empty(q)
    /\ pc' = "done"
    /\ UNCHANGED <<term, start, q, seen, preds, t, loops, l, body, schedule, changeCount, calls, fifo, call, blocks, builder, todo, reached>>

\* ---------------------------------------------------------------- Builder

\* A *Terminator field is the empty sequence when nil, else holds the
\* terminator pointed to.
NilTerminator == <<>>

\* &BasicBlock{}
NewBasicBlock == [Instructions |-> <<>>, Terminator |-> NilTerminator]

NoBuilder == [block |-> Nil]

NewBuilder(block) == [block |-> block]

Builder_Block(b) == b.block

\* The receiver is a copy of the caller's Builder: the assignment to its
\* field is lost when the method returns, and the caller's Builder is as it was.
Builder_SetBlock(b, block) == b

\* Mutant: a builder is always open.
Builder_Open_Always(b, bl) == TRUE

Builder_Open(b, bl) == bl[b.block].Terminator = NilTerminator

\* The blocks after appendInstruction, which panics on a closed block.
appendInstruction(b, bl, v) ==
    IF ~Builder_Open(b, bl)
    THEN bl
    ELSE [bl EXCEPT ![b.block].Instructions = Append(@, v)]

\* The blocks after appendTerminator, which panics on a closed block.
appendTerminator(b, bl, tm) ==
    IF ~Builder_Open(b, bl)
    THEN bl
    ELSE [bl EXCEPT ![b.block].Terminator = <<tm>>]

\* ---------------------------------------------------------------- the pipeline

Init ==
    /\ term \in Graphs
    /\ start \in Starts(term)
    /\ pc = "FindPredecessors"
    /\ q = LIFO_Add(newBlockLIFO, start)
    /\ seen = {}
    /\ preds = EmptyMap
    /\ t = EmptyMap
    /\ loops = <<>>
    /\ l = NoLoop
    /\ body = {}
    /\ schedule = EmptyMap
    /\ changeCount = EmptyMap
    /\ calls = <<>>
    /\ fifo = newblockFIFO
    /\ call = NoCall
    /\ todo = <<>>
    /\ reached = {}
    /\ blocks = EmptyMap
    /\ builder = NoBuilder

NextPreds ==
    \/ FindPredecessorsStep
    \/ FindPredecessorsReturn

\* FindPredecessors alone, up to its return.
SpecPreds == Init /\ [][NextPreds]_vars

NextPredsTwice ==
    \/ FindPredecessorsStep
    \/ FindPredecessorsAgain
    \/ FindPredecessorsTwiceReturn

\* FindPredecessors called twice with the same start block.
SpecPredsTwice == Init /\ [][NextPredsTwice]_vars

NextDoms ==
    \/ NextPreds
    \/ DominatorsVisit
    \/ FindDominatorsReturn

\* FindPredecessors and FindDominators, up to the return of the table.
SpecDoms == Init /\ [][NextDoms]_vars

Next ==
    \/ NextDoms
    \/ FindNaturalLoops

\* The pipeline FindPredecessors, FindDominators, FindNaturalLoops on every
\* small graph and on the graphs of the tests.
Spec == Init /\ [][Next]_vars

\* ---------------------------------------------------------------- the tests' graphs

TestGraphs == {Loop4, Loop5, Diamond, DiamondLoop, SwitchGraph}

InitTests ==
    /\ Init
    /\ term \in TestGraphs

NextTests ==
    \/ Next
    \/ FindBodyCall
    \/ FindBodyStep
    \/ FindBodyReturn

\* The pipeline followed by FindBody of a loop found, on the graphs of the
\* tests entered at any of their blocks.
SpecTests == InitTests /\ [][NextTests]_vars

\* ---------------------------------------------------------------- FindBody alone

\* Predecessor tables of any content over the blocks B: no entry is empty,
\* as in the tables FindPredecessors makes (a missing key reads as empty).
\* Every table is tried, so the head is the first block without loss.
Tables(B) == UNION {[K -> (SUBSET B) \ {{}}] : K \in SUBSET B}

InitBody ==
    /\ term = [b \in GenBlocks |-> Return]
    /\ start = Nil
    /\ pc = "FindBody"
    /\ preds \in Tables(GenBlocks)
    /\ l \in [Head : {BlockNames[1]}, Tail : GenBlocks]
    /\ body = NewBodySet(l)
    /\ q = LIFO_Add(newBlockLIFO, l.Tail)
    /\ seen = {}
    /\ t = EmptyMap
    /\ loops = <<>>
    /\ schedule = EmptyMap
    /\ changeCount = EmptyMap
    /\ calls = <<>>
    /\ fifo = newblockFIFO
    /\ call = NoCall
    /\ todo = <<>>
    /\ reached = {}
    /\ blocks = EmptyMap
    /\ builder = NoBuilder

NextBody ==
    \/ FindBodyStep
    \/ FindBodyReturn

\* FindBody of any loop with any predecessor table.
SpecBody == InitBody /\ [][NextBody]_vars

\* ---------------------------------------------------------------- ForwardDataFlow, logged

\* loggingBlockAnalyzer.AnalyzeBlock: the count left for block, and the result.
LoggingAnalyzeBlock(cc, block) ==
    IF LookupCount(cc, block) > 0
    THEN [changeCount |-> MapPut(cc, block, LookupCount(cc, block) - 1), changed |-> TRUE]
    ELSE [changeCount |-> cc, changed |-> FALSE]

\* One iteration of ForwardDataFlow's loop with the logging analyzer.
LoggingVisit ==
    /\ pc = "ForwardDataFlow"
    /\ ~LIFO_Empty(q)
    /\ LET block == LIFO_Peek(q)
           r == LoggingAnalyzeBlock(changeCount, block)
       IN /\ calls' = Append(calls, block)
          /\ changeCount' = r.changeCount
          /\ q' = FlowPush(LIFO_Next(q), block, r.changed)
    /\ UNCHANGED <<term, start, pc, seen, preds, t, loops, l, body, schedule, fifo, call, blocks, builder, todo, reached>>

ForwardDataFlowReturn ==
    /\ pc = "ForwardDataFlow"
    /\ LIFO_Empty(q)
    /\ pc' = "done"
    /\ UNCHANGED <<term, start, q, seen, preds, t, loops, l, body, schedule, changeCount, calls, fifo, call, blocks, builder, todo, reached>>

InitFlow ==
    /\ term \in TestGraphs
    /\ start \in DOMAIN term
    /\ pc = "ForwardDataFlow"
    /\ schedule \in [DOMAIN term -> 0..MaxChange]
    /\ changeCount = schedule
    /\ calls = <<>>
    /\ q = LIFO_Add(newBlockLIFO, start)
    /\ seen = {}
    /\ preds = EmptyMap
    /\ t = EmptyMap
    /\ loops = <<>>
    /\ l = NoLoop
    /\ body = {}
    /\ fifo = newblockFIFO
    /\ call = NoCall
    /\ todo = <<>>
    /\ reached = {}
    /\ blocks = EmptyMap
    /\ builder = NoBuilder

NextFlow ==
    \/ LoggingVisit
    \/ ForwardDataFlowReturn

\* ForwardDataFlow driven by the logging analyzer of the data flow test.
SpecFlow == InitFlow /\ [][NextFlow]_vars

\* ---------------------------------------------------------------- ForwardDataFlow, any analyzer

\* Mutant: a change is reported without being counted.
AnyAnalyzeBlock_Uncounted(cc, block, changed) == [changeCount |-> cc, changed |-> changed]

\* An implementation of BlockAnalyzer whose result is not determined by the
\* driver: it reports a change or not, as it likes, and cc[block] bounds the
\* changes it still reports for block.
AnyAnalyzeBlock(cc, block, changed) ==
    IF changed
    THEN [changeCount |-> MapPut(cc, block, LookupCount(cc, block) - 1), changed |-> TRUE]
    ELSE [changeCount |-> cc, changed |-> FALSE]

\* One iteration of ForwardDataFlow's loop with such an analyzer.
AnyVisit ==
    /\ pc = "ForwardDataFlowAny"
    /\ ~LIFO_Empty(q)
    /\ LET block == LIFO_Peek(q)
       IN \E changed \in BOOLEAN :
            /\ changed => LookupCount(changeCount, block) > 0
            /\ LET r == AnyAnalyzeBlock(changeCount, block, changed)
               IN /\ changeCount' = r.changeCount
                  /\ q' = FlowPush(LIFO_Next(q), block, r.changed)
    /\ UNCHANGED <<term, start, pc, seen, preds, t, loops, l, body, schedule, calls, fifo, call, blocks, builder, todo, reached>>

\* BlockAnalyzerFunc(func(*ossa.BasicBlock) bool { return true })
AlwaysAnalyzeBlock(block) == TRUE

\* One iteration of ForwardDataFlow's loop with the analyzer that reports a
\* change on every visit.
AlwaysVisit ==
    /\ pc = "ForwardDataFlowAlways"
    /\ ~LIFO_Empty(q)
    /\ q' = FlowPush(LIFO_Next(q), LIFO_Peek(q), AlwaysAnalyzeBlock(LIFO_Peek(q)))
    /\ UNCHANGED <<term, start, pc, seen, preds, t, loops, l, body, schedule, changeCount, calls, fifo, call, blocks, builder, todo, reached>>

\* "for !q.Empty()" ends and ForwardDataFlow returns.
AnyFlowReturn ==
    /\ pc \in {"ForwardDataFlowAny", "ForwardDataFlowAlways"}
    /\ LIFO_Empty(q)
    /\ pc' = "done"
    /\ UNCHANGED <<term, start, q, seen, preds, t, loops, l, body, schedule, changeCount, calls, fifo, call, blocks, builder, todo, reached>>

FlowBlockSet == {BlockNames[i] : i \in 1..FlowBlocks}

FlowGraphs == [FlowBlockSet -> Terminators(FlowBlockSet)] \cup {Loop4, SwitchGraph, TwoBranches}

RECURSIVE SumOver(_, _)
\* The sum of the counts cc holds for the blocks B.
SumOver(cc, B) ==
    IF B = {}
    THEN 0
    ELSE LET b == CHOOSE x \in B : TRUE
         IN cc[b] + SumOver(cc, B \ {b})

\* The analyzers tried report up to MaxChange changes in total; the one that
\* always reports a change has no use for its counts.
InitAny ==
    /\ term \in FlowGraphs
    /\ start \in Starts(term)
    /\ pc \in {"ForwardDataFlowAny", "ForwardDataFlowAlways"}
    /\ schedule \in [DOMAIN term -> 0..MaxChange]
    /\ SumOver(schedule, DOMAIN term) <= MaxChange
    /\ pc = "ForwardDataFlowAlways" => schedule = [b \in DOMAIN term |-> 0]
    /\ changeCount = schedule
    /\ calls = <<>>
    /\ fifo = newblockFIFO
    /\ call = NoCall
    /\ todo = <<>>
    /\ reached = {}
    /\ blocks = EmptyMap
    /\ builder = NoBuilder
    /\ q = LIFO_Add(newBlockLIFO, start)
    /\ seen = {}
    /\ preds = EmptyMap
    /\ t = EmptyMap
    /\ loops = <<>>
    /\ l = NoLoop
    /\ body = {}

NextAny ==
    \/ AnyVisit
    \/ AlwaysVisit
    \/ AnyFlowReturn

\* ForwardDataFlow with analyzers of any behaviour. The loop is sequential
\* code: an iteration that can run does run.
SpecFlowAny == InitAny /\ [][NextAny]_vars /\ WF_vars(NextAny)

\* ---------------------------------------------------------------- FindNaturalLoops, appending

InitLoopsTo ==
    /\ term \in FlowGraphs \cup TestGraphs
    /\ start \in Starts(term)
    /\ pc = "FindPredecessors"
    /\ q = LIFO_Add(newBlockLIFO, start)
    /\ seen = {}
    /\ preds = EmptyMap
    /\ t = EmptyMap
    /\ loops = <<>>
    /\ l = NoLoop
    /\ body = {}
    /\ schedule = EmptyMap
    /\ changeCount = EmptyMap
    /\ calls = <<>>
    /\ fifo = newblockFIFO
    /\ call = NoCall
    /\ todo = <<>>
    /\ reached = {}
    /\ blocks = EmptyMap
    /\ builder = NoBuilder

NextLoopsTo ==
    \/ NextPreds
    \/ DominatorsVisit
    \/ FindDominatorsReturnTo
    \/ FindNaturalLoops

\* The pipeline with FindNaturalLoops appending to a slice of its caller.
SpecLoopsTo == InitLoopsTo /\ [][NextLoopsTo]_vars

\* ---------------------------------------------------------------- FindDominators, run to its end

InitDomsRun ==
    /\ term \in FlowGraphs \cup TestGraphs \cup {SpinLoop}
    /\ start \in Starts(term)
    /\ pc = "FindPredecessors"
    /\ q = LIFO_Add(newBlockLIFO, start)
    /\ seen = {}
    /\ preds = EmptyMap
    /\ t = EmptyMap
    /\ loops = <<>>
    /\ l = NoLoop
    /\ body = {}
    /\ schedule = EmptyMap
    /\ changeCount = EmptyMap
    /\ calls = <<>>
    /\ fifo = newblockFIFO
    /\ call = NoCall
    /\ todo = <<>>
    /\ reached = {}
    /\ blocks = EmptyMap
    /\ builder = NoBuilder

\* FindPredecessors and FindDominators, never stopping while a step can be
\* taken: the loops run on until they end.
SpecDomsRun == InitDomsRun /\ [][NextDoms]_vars /\ WF_vars(NextDoms)

\* ---------------------------------------------------------------- the worklists, driven

WorkBlocks == {BlockNames[i] : i \in 1..WorklistBlocks}

\* q.Add(b) on the stack
LIFOAdd ==
    /\ pc = "worklists"
    /\ \E b \in WorkBlocks :
        /\ q' = LIFO_Add(q, b)
        /\ call' = [method |-> "LIFO.Add", arg |-> b, ret |-> Nil]
    /\ UNCHANGED <<term, start, pc, seen, preds, t, loops, l, body, schedule, changeCount, calls, fifo, blocks, builder, todo, reached>>

\* q.Peek() on the stack
LIFOPeek ==
    /\ pc = "worklists"
    /\ call' = [method |-> "LIFO.Peek", arg |-> Nil, ret |-> LIFO_Peek(q)]
    /\ UNCHANGED <<term, start, pc, q, seen, preds, t, loops, l, body, schedule, changeCount, calls, fifo, blocks, builder, todo, reached>>

\* q.Next() on the stack
LIFONext ==
    /\ pc = "worklists"
    /\ call' = [method |-> "LIFO.Next", arg |-> Nil, ret |-> LIFO_Peek(q)]
    /\ q' = LIFO_Next(q)
    /\ UNCHANGED <<term, start, pc, seen, preds, t, loops, l, body, schedule, changeCount, calls, fifo, blocks, builder, todo, reached>>

\* q.ReverseTopN(n): q.items[l-n:] aborts for n beyond the length.
LIFOReverseTopN ==
    /\ pc = "worklists"
    /\ \E n \in 0..(LIFO_Length(q) + 1) :
        IF n <= LIFO_Length(q)
        THEN /\ q' = LIFO_ReverseTopN(q, n)
             /\ call' = [method |-> "LIFO.ReverseTopN", arg |-> n, ret |-> Nil]
             /\ pc' = pc
        ELSE /\ q' = q
             /\ call' = [method |-> "LIFO.ReverseTopN", arg |-> n, ret |-> Panic]
             /\ pc' = "aborted"
    /\ UNCHANGED <<term, start, seen, preds, t, loops, l, body, schedule, changeCount, calls, fifo, blocks, builder, todo, reached>>

\* q.Add(b) on the queue
FIFOAdd ==
    /\ pc = "worklists"
    /\ \E b \in GenBlocks :
        /\ fifo' = FIFO_Add(fifo, b)
        /\ call' = [method |-> "FIFO.Add", arg |-> b, ret |-> Nil]
    /\ UNCHANGED <<term, start, pc, q, seen, preds, t, loops, l, body, schedule, changeCount, calls, blocks, builder, todo, reached>>

\* q.Peek() on the queue
FIFOPeek ==
    /\ pc = "worklists"
    /\ call' = [method |-> "FIFO.Peek", arg |-> Nil, ret |-> FIFO_Peek(fifo)]
    /\ pc' = IF FIFO_Peek(fifo) = Panic THEN "aborted" ELSE pc
    /\ UNCHANGED <<term, start, q, seen, preds, t, loops, l, body, schedule, changeCount, calls, fifo, blocks, builder, todo, reached>>

\* q.Next() on the queue
FIFONext ==
    /\ pc = "worklists"
    /\ call' = [method |-> "FIFO.Next", arg |-> Nil, ret |-> FIFO_NextBlock(fifo)]
    /\ fifo' = FIFO_Next(fifo)
    /\ UNCHANGED <<term, start, pc, q, seen, preds, t, loops, l, body, schedule, changeCount, calls, blocks, builder, todo, reached>>

InitQueues ==
    /\ term = [b \in WorkBlocks |-> Return]
    /\ start = Nil
    /\ pc = "worklists"
    /\ q = newBlockLIFO
    /\ fifo = newblockFIFO
    /\ call = NoCall
    /\ todo = <<>>
    /\ reached = {}
    /\ blocks = EmptyMap
    /\ builder = NoBuilder
    /\ seen = {}
    /\ preds = EmptyMap
    /\ t = EmptyMap
    /\ loops = <<>>
    /\ l = NoLoop
    /\ body = {}
    /\ schedule = EmptyMap
    /\ changeCount = EmptyMap
    /\ calls = <<>>

NextQueues ==
    \/ LIFOAdd
    \/ LIFOPeek
    \/ LIFONext
    \/ LIFOReverseTopN
    \/ FIFOAdd
    \/ FIFOPeek
    \/ FIFONext

\* A stack and a queue of blocks under any sequence of calls.
SpecQueues == InitQueues /\ [][NextQueues]_vars

\* ---------------------------------------------------------------- terminators, driven

\* The block arguments a factory was called with.
Targets(first, second, cases) == [first |-> first, second |-> second, cases |-> cases]

\* The terminators the factories build over the blocks B, each with the
\* factory and the block arguments it came from.
Built(B) ==
    {[factory |-> "Jump", targets |-> Targets(x, Nil, <<>>), tm |-> Jump(x)] : x \in B}
    \cup {[factory |-> "Branch", targets |-> Targets(x, y, <<>>), tm |-> Branch(x, y)] :
            x \in B, y \in B}
    \cup {[factory |-> "Switch", targets |-> Targets(x, Nil, c), tm |-> Switch(x, c)] :
            x \in B, c \in SeqsUpTo(B, MaxCases)}
    \cup {[factory |-> "Return", targets |-> Targets(Nil, Nil, <<>>), tm |-> Return]}
    \cup {[factory |-> "Yield", targets |-> Targets(x, Nil, <<>>), tm |-> Yield(x)] : x \in B}
    \cup {[factory |-> "Await", targets |-> Targets(x, Nil, <<>>), tm |-> Await(x)] : x \in B}
    \cup {[factory |-> "Unreachable", targets |-> Targets(Nil, Nil, <<>>), tm |-> Unreachable]}

OpCodes == (opInvalid - OpMargin)..(opEndTerminators + OpMargin)

\* Terminators no factory built: the zero value, whose op is opInvalid, and
\* its like with any other code that is not a terminator operation. A
\* Terminator with a terminator operation only comes from a factory.
Unbuilt ==
    {[factory |-> "none", targets |-> Targets(Nil, Nil, <<>>), tm |-> [op |-> o, args |-> <<>>]] :
        o \in {c \in OpCodes : ~Terminator(c)}}

\* t.AppendSuccessors(to)
AppendSuccessorsCall ==
    /\ pc = "terminators"
    /\ \E bt \in Built(GenBlocks) \cup Unbuilt, to \in SeqsUpTo(GenBlocks, MaxPrior) :
        LET ret == AppendSuccessors(bt.tm, to)
        IN /\ call' = [method |-> "AppendSuccessors",
                       arg |-> [factory |-> bt.factory, targets |-> bt.targets,
                                op |-> bt.tm.op, to |-> to],
                       ret |-> ret]
           /\ pc' = IF ret = NoSlice THEN "aborted" ELSE "returned"
    /\ UNCHANGED <<term, start, q, seen, preds, t, loops, l, body, schedule, changeCount, calls, fifo, blocks, builder, todo, reached>>

\* o.Valid(), o.Value(), o.Terminator()
OpClassify ==
    /\ pc = "terminators"
    /\ \E o \in OpCodes :
        call' = [method |-> "Op", arg |-> o,
                 ret |-> [Valid |-> Valid(o), Value |-> Value(o), Terminator |-> Terminator(o)]]
    /\ pc' = "returned"
    /\ UNCHANGED <<term, start, q, seen, preds, t, loops, l, body, schedule, changeCount, calls, fifo, blocks, builder, todo, reached>>

InitTerm ==
    /\ term = [b \in GenBlocks |-> Return]
    /\ start = Nil
    /\ pc = "terminators"
    /\ q = newBlockLIFO
    /\ fifo = newblockFIFO
    /\ call = NoCall
    /\ todo = <<>>
    /\ reached = {}
    /\ blocks = EmptyMap
    /\ builder = NoBuilder
    /\ seen = {}
    /\ preds = EmptyMap
    /\ t = EmptyMap
    /\ loops = <<>>
    /\ l = NoLoop
    /\ body = {}
    /\ schedule = EmptyMap
    /\ changeCount = EmptyMap
    /\ calls = <<>>

\* The values a caller holds and passes to the factories.
Operands == {"x", "y", "z"}

\* Load(ref)
LoadCall ==
    /\ pc = "terminators"
    /\ \E ref \in Operands :
        call' = [method |-> "Load", arg |-> <<ref>>, ret |-> Load(ref)]
    /\ pc' = "returned"
    /\ UNCHANGED <<term, start, q, seen, preds, t, loops, l, body, schedule, changeCount, calls, fifo, blocks, builder, todo, reached>>

\* Store(val, ref)
StoreCall ==
    /\ pc = "terminators"
    /\ \E val \in Operands, ref \in Operands :
        call' = [method |-> "Store", arg |-> <<val, ref>>, ret |-> Store(val, ref)]
    /\ pc' = "returned"
    /\ UNCHANGED <<term, start, q, seen, preds, t, loops, l, body, schedule, changeCount, calls, fifo, blocks, builder, todo, reached>>

NextTerm ==
    \/ AppendSuccessorsCall
    \/ OpClassify
    \/ LoadCall
    \/ StoreCall

\* One call on any terminator, on any operation code, or of a value factory.
SpecTerm == InitTerm /\ [][NextTerm]_vars

\* ---------------------------------------------------------------- Builder, driven

BuilderBlocks == {BlockNames[1], BlockNames[2]}

\* The values appended as instructions; a value is its identity.
InstrValues == {"v1", "v2"}

\* NewBuilder(block), and b.NewBlock() while a block is still untouched
BuilderNew ==
    /\ pc = "builder"
    /\ \E b \in BuilderBlocks :
        /\ builder' = NewBuilder(b)
        /\ call' = [method |-> "NewBuilder", arg |-> b, ret |-> Nil]
    /\ UNCHANGED <<term, start, pc, q, seen, preds, t, loops, l, body, schedule, changeCount, calls, fifo, blocks, todo, reached>>

\* builder.SetBlock(block); ret is what builder.Block() returns after it.
BuilderSetBlock ==
    /\ pc = "builder"
    /\ \E b \in BuilderBlocks :
        /\ builder' = Builder_SetBlock(builder, b)
        /\ call' = [method |-> "SetBlock", arg |-> b,
                    ret |-> Builder_Block(Builder_SetBlock(builder, b))]
    /\ UNCHANGED <<term, start, pc, q, seen, preds, t, loops, l, body, schedule, changeCount, calls, fifo, blocks, todo, reached>>

\* builder.Phi, Load, Store or Call: a value is made and appended.
BuilderAppendInstruction ==
    /\ pc = "builder"
    /\ Len(blocks[builder.block].Instructions) < MaxInstrs
    /\ \E v \in InstrValues :
        /\ blocks' = appendInstruction(builder, blocks, v)
        /\ call' = [method |-> "appendInstruction", arg |-> v,
                    ret |-> IF Builder_Open(builder, blocks) THEN v ELSE Panic]
    /\ pc' = IF Builder_Open(builder, blocks) THEN pc ELSE "aborted"
    /\ UNCHANGED <<term, start, q, seen, preds, t, loops, l, body, schedule, changeCount, calls, fifo, builder, todo, reached>>

\* builder.Jump, Branch, Switch, Return, Yield or Await: a terminator is made
\* and appended.
BuilderAppendTerminator ==
    /\ pc = "builder"
    /\ \E bt \in Built(BuilderBlocks) :
        /\ bt.factory # "Unreachable"
        /\ bt.factory = "Switch" => Len(bt.targets.cases) <= 1
        /\ blocks' = appendTerminator(builder, blocks, bt.tm)
        /\ call' = [method |-> "appendTerminator", arg |-> bt.factory,
                    ret |-> IF Builder_Open(builder, blocks) THEN Nil ELSE Panic]
    /\ pc' = IF Builder_Open(builder, blocks) THEN pc ELSE "aborted"
    /\ UNCHANGED <<term, start, q, seen, preds, t, loops, l, body, schedule, changeCount, calls, fifo, builder, todo, reached>>

InitBuilder ==
    /\ term = [b \in BuilderBlocks |-> Return]
    /\ start = Nil
    /\ pc = "builder"
    /\ blocks = [b \in BuilderBlocks |-> NewBasicBlock]
    /\ builder = NewBuilder(BlockNames[1])
    /\ call = NoCall
    /\ todo = <<>>
    /\ reached = {}
    /\ q = newBlockLIFO
    /\ fifo = newblockFIFO
    /\ seen = {}
    /\ preds = EmptyMap
    /\ t = EmptyMap
    /\ loops = <<>>
    /\ l = NoLoop
    /\ body = {}
    /\ schedule = EmptyMap
    /\ changeCount = EmptyMap
    /\ calls = <<>>

NextBuilder ==
    \/ BuilderNew
    \/ BuilderSetBlock
    \/ BuilderAppendInstruction
    \/ BuilderAppendTerminator

\* Two blocks built through a Builder under any sequence of calls.
SpecBuilder == InitBuilder /\ [][NextBuilder]_vars

\* ---------------------------------------------------------------- AddReachable

\* One turn of the loop of b.AddReachable(to), b being start: the last block of
\* todo is taken off; unless the set has it, it is added and the successors
\* of the receiver's terminator are appended to todo.
AddReachableIter ==
    /\ pc = "AddReachable"
    /\ Len(todo) > 0
    /\ LET block == todo[Len(todo)]
           rest == SubSeq(todo, 1, Len(todo) - 1)
       IN IF block \in reached
          THEN /\ todo' = rest
               /\ UNCHANGED reached
          ELSE /\ reached' = reached \cup {block}
               /\ todo' = AppendSuccessors(term[start], rest)
    /\ UNCHANGED <<term, start, pc, q, seen, preds, t, loops, l, body, schedule, changeCount, calls, fifo, call, blocks, builder>>

AddReachableReturn ==
    /\ pc = "AddReachable"
    /\ Len(todo) = 0
    /\ pc' = "AddReachableDone"
    /\ UNCHANGED <<term, start, q, seen, preds, t, loops, l, body, schedule, changeCount, calls, fifo, call, blocks, builder, todo, reached>>

\* b.AddReachable(BasicBlockSet{}) entered for any block b of any graph.
InitReach ==
    /\ term \in Graphs
    /\ start \in DOMAIN term
    /\ pc = "AddReachable"
    /\ todo = <<start>>
    /\ reached = {}
    /\ blocks = EmptyMap
    /\ builder = NoBuilder
    /\ call = NoCall
    /\ q = newBlockLIFO
    /\ fifo = newblockFIFO
    /\ seen = {}
    /\ preds = EmptyMap
    /\ t = EmptyMap
    /\ loops = <<>>
    /\ l = NoLoop
    /\ body = {}
    /\ schedule = EmptyMap
    /\ changeCount = EmptyMap
    /\ calls = <<>>

NextReach ==
    \/ AddReachableIter
    \/ AddReachableReturn

SpecReach == InitReach /\ [][NextReach]_vars

\* ---------------------------------------------------------------- graph facts

\* The graph has an edge a -> b.
Edge(a, b) == b \in Range(Successors(a))

RECURSIVE Forward(_, _)
\* The blocks reachable from the blocks S through edges, never entering avoid.
Forward(S, avoid) ==
    LET N == S \cup {b \in DOMAIN term : b # avoid /\ \E a \in S : Edge(a, b)}
    IN IF N = S THEN S ELSE Forward(N, avoid)

\* The blocks reachable from start, start included.
Reachable == Forward({start}, Nil)

\* Every path from start to b passes through d.
Dominates(d, b) ==
    /\ b \in Reachable
    /\ d = b \/ d = start \/ b \notin Forward({start}, d)

TrueDominators(b) == {d \in DOMAIN term : Dominates(d, b)}

\* The back edges tail -> head of the reachable graph, as <<tail, head>>.
TrueBackEdges == {e \in Reachable \X Reachable : Edge(e[1], e[2]) /\ Dominates(e[2], e[1])}

RECURSIVE Backward(_, _, _)
\* The blocks from which a block of S is reached along the edges of the
\* predecessor table pr, never entering avoid.
Backward(S, pr, avoid) ==
    LET N == S \cup {p \in UNION {Lookup(pr, b) : b \in S} : p # avoid}
    IN IF N = S THEN S ELSE Backward(N, pr, avoid)

\* A block reachable from start lies on a cycle.
CycleReachable ==
    \E b \in Reachable : b \in Forward(Range(Successors(b)), Nil)

\* No block of the graph reaches itself along one edge or more.
Acyclic == \A b \in DOMAIN term : b \notin Forward(Range(Successors(b)), Nil)

\* The pipeline entered on a graph without a cycle.
InitAcyclic ==
    /\ Init
    /\ Acyclic

\* The pipeline FindPredecessors, FindDominators, FindNaturalLoops on every
\* small graph without a cycle and on those of the named graphs.
SpecAcyclic == InitAcyclic /\ [][Next]_vars

PredsDone == pc # "FindPredecessors"

DominatorsDone == pc \in {"FindNaturalLoops", "FindNaturalLoopsDone", "FindBody", "done"}

LoopsDone == pc \in {"FindNaturalLoopsDone", "FindBody", "done"}

\* ---------------------------------------------------------------- C1

\* C1: FindDominators maps every block reachable from start to exactly the
\* blocks every path from start to it passes through, whatever the order in
\* which predecessor sets are enumerated.
C1_DominatorsExact ==
    DominatorsDone =>
        /\ DOMAIN t = Reachable
        /\ \A b \in Reachable : t[b] = TrueDominators(b)

\* ---------------------------------------------------------------- C2

\* C2: on the 4-block loop entered at entry the table is entry:{entry},
\* loopHeader:{entry,loopHeader}, loopBody:{entry,loopHeader,loopBody},
\* exit:{entry,loopHeader,exit}, with no other key, for every enumeration order.
C2_Loop4Dominators ==
    (term = Loop4 /\ start = "entry" /\ DominatorsDone) =>
        t = [b \in {"entry", "loopHeader", "loopBody", "exit"} |->
                CASE b = "entry" -> {"entry"}
                  [] b = "loopHeader" -> {"entry", "loopHeader"}
                  [] b = "loopBody" -> {"entry", "loopHeader", "loopBody"}
                  [] b = "exit" -> {"entry", "loopHeader", "exit"}]

C2_Witness ==
    /\ term = Loop4
    /\ start = "entry"
    /\ pc = "FindNaturalLoops"
    /\ DOMAIN t = DOMAIN Loop4

\* ---------------------------------------------------------------- C3

\* C3: every entry of the table FindPredecessors returns is exactly the set of
\* reachable blocks with an edge into its block, and the entry of a block other
\* than start is not empty.
C3_EntriesExact ==
    PredsDone =>
        LET R == Reachable
        IN \A b \in DOMAIN preds :
            /\ preds[b] = {a \in R : Edge(a, b)}
            /\ b # start => preds[b] # {}

\* A table is returned with an entry of two predecessors, for a block that
\* also has an edge from an unreachable block.
C3_Witness ==
    /\ pc = "FindDominators"
    /\ \E b \in DOMAIN preds :
        /\ Cardinality(preds[b]) >= 2
        /\ \E u \in (DOMAIN term) \ Reachable : Edge(u, b)

\* ---------------------------------------------------------------- C4

\* C4 as stated: the table has one key for every block reachable from start,
\* start included even when no edge leads into it, and no other key.
C4_KeyPerReachable == PredsDone => DOMAIN preds = Reachable

\* FindPredecessors returned a table without a key for start, although start
\* is reachable from itself by definition.
C4_Witness ==
    /\ pc = "FindDominators"
    /\ start \notin DOMAIN preds
    /\ DOMAIN preds # {}

\* ---------------------------------------------------------------- C5

Schedule1211 ==
    [b \in {"entry", "loopHeader", "loopBody", "exit"} |->
        CASE b = "entry" -> 1
          [] b = "loopHeader" -> 2
          [] b = "loopBody" -> 1
          [] b = "exit" -> 1]

Want1211 == <<"entry", "loopHeader", "loopBody", "loopHeader", "loopBody", "exit">>

\* C5: on the 4-block loop, with an analyzer reporting a change on the first
\* 1, 2, 1, 1 visits of entry, loopHeader, loopBody, exit, ForwardDataFlow
\* visits exactly entry, loopHeader, loopBody, loopHeader, loopBody, exit and
\* then returns.
C5_VisitOrder ==
    (term = Loop4 /\ start = "entry" /\ schedule = Schedule1211) =>
        /\ Len(calls) <= Len(Want1211)
        /\ calls = SubSeq(Want1211, 1, Len(calls))
        /\ LIFO_Empty(q) <=> calls = Want1211
        /\ pc = "done" => calls = Want1211

C5_Witness ==
    /\ term = Loop4
    /\ start = "entry"
    /\ schedule = Schedule1211
    /\ pc = "done"
    /\ Len(calls) = 6

\* ---------------------------------------------------------------- C6

\* The loops found, as the set of their edges <<tail, head>>.
LoopEdges == {<<loops[i].Tail, loops[i].Head>> : i \in 1..Len(loops)}

\* C6: the loops FindNaturalLoops returns after FindPredecessors and
\* FindDominators are exactly the edges tail -> head between reachable blocks
\* whose head dominates the tail: none is missing, none is spurious.
C6_LoopsAreBackEdges == LoopsDone => LoopEdges = TrueBackEdges

\* ---------------------------------------------------------------- C7

\* C7: on the 5-block loop entered at entry the pipeline finds exactly one
\* loop, head loopHeader and tail loopTail, and its body is exactly
\* {loopHeader, loopBody, loopTail}.
C7_Loop5Body ==
    (term = Loop5 /\ start = "entry") =>
        /\ LoopsDone => loops = <<[Head |-> "loopHeader", Tail |-> "loopTail"]>>
        /\ pc = "done" => body = {"loopHeader", "loopBody", "loopTail"}

C7_Witness ==
    /\ term = Loop5
    /\ start = "entry"
    /\ pc = "done"
    /\ l = [Head |-> "loopHeader", Tail |-> "loopTail"]
    /\ Cardinality(body) = 3

\* ---------------------------------------------------------------- C8

\* The blocks FindBody is to return: the head, and every block from which the
\* tail is reached along predecessor edges without passing through the head.
TrueBody ==
    {l.Head} \cup Backward(IF l.Tail = l.Head THEN {} ELSE {l.Tail}, preds, l.Head)

\* C8: for every loop and predecessor table FindBody terminates (each
\* iteration grows the result or else shrinks the worklist) and returns exactly
\* the head with every block from which the tail is reached along predecessor
\* edges by a path avoiding the head; the predecessors of the head are never
\* expanded (whatever is queued is the tail or a predecessor of a collected
\* block other than the head).
C8_BodyExact ==
    /\ [](pc = "done" => body = TrueBody)
    /\ [](\A x \in q.present :
            x = l.Tail \/ \E b \in body \ {l.Head} : x \in Lookup(preds, b))
    /\ [][(pc = "FindBody" /\ pc' = "FindBody") =>
            \/ body \subseteq body' /\ body # body' /\ body' \subseteq TrueBody
            \/ body' = body /\ Len(q'.items) < Len(q.items)]_vars

\* FindBody returned a body of the head and at least one more block, for a
\* head that has a predecessor of its own which stayed outside.
C8_Witness ==
    /\ pc = "done"
    /\ start = Nil
    /\ l.Head # l.Tail
    /\ Cardinality(body) >= 2
    /\ Lookup(preds, l.Head) \ body # {}

\* ---------------------------------------------------------------- C9

\* C9: after every AnalyzeBlock visit and in the final table, every block
\* with a dominator set is a member of its own set.
C9_SelfMember == \A b \in DOMAIN t : b \in t[b]

\* A visit has left a block in its own set although a predecessor with an
\* entry of its own does not have the block among its dominators.
C9_Witness ==
    /\ pc = "FindDominators"
    /\ \E b \in DOMAIN t : \E p \in Lookup(preds, b) \cap DOMAIN t :
        b \notin t[p] /\ b \in t[b]

\* ---------------------------------------------------------------- C10

\* C10: across successive visits of a block during FindDominators its set
\* only shrinks: the set after a later visit is a subset of the set after the
\* earlier one.
C10_OnlyShrinks ==
    [][\A b \in (DOMAIN t) \cap (DOMAIN t') : t'[b] \subseteq t[b]]_vars

\* ---------------------------------------------------------------- C11

\* The changes the analyzer may still report, summed over the blocks.
ChangesLeft == SumOver(changeCount, DOMAIN changeCount)

\* C11: with an analyzer that reports a change only finitely many times
\* ForwardDataFlow empties its worklist and returns (every iteration uses up a
\* change or else shrinks the worklist); with the analyzer that reports a
\* change on every visit and a cycle reachable from start the worklist never
\* empties, so it never returns.
C11_Termination ==
    /\ (pc = "ForwardDataFlowAny") ~> (pc = "done")
    /\ [][pc = "ForwardDataFlowAny" /\ pc' = pc =>
            \/ ChangesLeft' < ChangesLeft
            \/ ChangesLeft' = ChangesLeft /\ Len(q'.items) < Len(q.items)]_vars
    /\ []((pc = "ForwardDataFlowAlways" /\ CycleReachable) => ~LIFO_Empty(q))

\* ForwardDataFlow returned on a graph with a cycle reachable from start,
\* after an analyzer reported as many changes as it was allowed.
C11_Witness ==
    /\ pc = "done"
    /\ CycleReachable
    /\ ChangesLeft = 0
    /\ SumOver(schedule, DOMAIN schedule) = MaxChange

\* ---------------------------------------------------------------- C12

NoDuplicates(s) == \A i, j \in 1..Len(s) : s[i] = s[j] => i = j

\* C12: after any sequence of calls no block is stored twice in the stack or
\* in the queue, and Has(b) is true exactly for the blocks stored.
C12_NoDuplicates ==
    /\ NoDuplicates(q.items)
    /\ NoDuplicates(fifo.chain)
    /\ \A b \in WorkBlocks :
        /\ LIFO_Has(q, b) <=> b \in Range(q.items)
        /\ FIFO_Has(fifo, b) <=> b \in Range(fifo.chain)

\* Both containers are full, and the last call was an Add of a stored block.
C12_Witness ==
    /\ pc = "worklists"
    /\ Len(q.items) = WorklistBlocks
    /\ Len(fifo.chain) = NumBlocks
    /\ call.method = "FIFO.Add"

\* ---------------------------------------------------------------- C13

\* C13: Add of a block that is stored leaves the stack, and likewise the
\* queue, as it was (content, order, length); and a block that Next returns
\* is no longer stored, so Next returns it again only after another Add.
C13_AddIdempotent ==
    [][/\ (call'.method = "LIFO.Add" /\ LIFO_Has(q, call'.arg)) => q' = q
       /\ (call'.method = "FIFO.Add" /\ FIFO_Has(fifo, call'.arg)) => fifo' = fifo
       /\ (call'.method = "LIFO.Next" /\ call'.ret # Nil) =>
            /\ ~LIFO_Has(q', call'.ret)
            /\ Len(q'.items) = Len(q.items) - 1
       /\ (call'.method = "FIFO.Next" /\ call'.ret # Nil) =>
            /\ ~FIFO_Has(fifo', call'.ret)
            /\ Len(fifo'.chain) = Len(fifo.chain) - 1]_vars

\* A stored block was added again to the stack, which holds another block
\* above it.
C13_Witness ==
    /\ pc = "worklists"
    /\ call.method = "LIFO.Add"
    /\ Len(q.items) >= 2
    /\ q.items[1] = call.arg
    /\ Len(fifo.chain) >= 2

\* ---------------------------------------------------------------- C14

\* C14 as stated: on the stack and on the queue alike, Peek and Next on an
\* empty container return nil, do not abort and leave it empty; Peek on a
\* non-empty container returns the block a Next in its place would return and
\* changes nothing.
C14_PeekNextTotal ==
    [][/\ call'.method = "LIFO.Peek" =>
            /\ call'.ret = (IF LIFO_Empty(q) THEN Nil ELSE q.items[Len(q.items)])
            /\ q' = q
            /\ pc' # "aborted"
       /\ (call'.method = "LIFO.Next" /\ LIFO_Empty(q)) =>
            /\ call'.ret = Nil
            /\ q' = q
            /\ pc' # "aborted"
       /\ call'.method = "FIFO.Peek" =>
            /\ call'.ret = FIFO_NextBlock(fifo)
            /\ fifo' = fifo
            /\ pc' # "aborted"
       /\ (call'.method = "FIFO.Next" /\ FIFO_Empty(fifo)) =>
            /\ call'.ret = Nil
            /\ fifo' = fifo
            /\ pc' # "aborted"]_vars

\* ---------------------------------------------------------------- C15

\* C15: on a stack of length L, ReverseTopN(n) with 0 <= n <= L returns
\* normally, reverses the order of the top n items, leaves the bottom L-n
\* items where they were and changes neither the length nor the members.
C15_ReverseTopN ==
    [][(call'.method = "LIFO.ReverseTopN" /\ call'.arg <= Len(q.items)) =>
            LET L == Len(q.items)
                n == call'.arg
            IN /\ call'.ret = Nil
               /\ pc' = pc
               /\ Len(q'.items) = L
               /\ \A i \in 1..(L - n) : q'.items[i] = q.items[i]
               /\ \A i \in 1..n : q'.items[L - n + i] = q.items[L + 1 - i]
               /\ q'.present = q.present]_vars

\* The top four of four items were reversed, which takes two swaps.
C15_Witness ==
    /\ pc = "worklists"
    /\ call.method = "LIFO.ReverseTopN"
    /\ call.arg = 4
    /\ q.items = <<"b4", "b3", "b2", "b1">>

\* ---------------------------------------------------------------- C16

\* C16: for a terminator built by a factory AppendSuccessors returns the
\* slice it was given followed by: the target of a Jump; the true target and
\* then the false target of a Branch; the default target and then the case
\* targets in declaration order of a Switch with any number of cases; nothing
\* for Return and Unreachable; the resume target of Yield and Await.
C16_SuccessorOrder ==
    (call.method = "AppendSuccessors" /\ call.arg.factory # "none") =>
        LET a == call.arg
            f == a.factory
        IN call.ret = a.to \o
            (CASE f = "Jump" -> <<a.targets.first>>
               [] f = "Branch" -> <<a.targets.first, a.targets.second>>
               [] f = "Switch" -> <<a.targets.first>> \o a.targets.cases
               [] f \in {"Return", "Unreachable"} -> <<>>
               [] f \in {"Yield", "Await"} -> <<a.targets.first>>)

\* The successors of a switch with as many cases as are tried, not all with
\* the same target, were appended to a slice that held blocks already.
C16_Witness ==
    /\ call.method = "AppendSuccessors"
    /\ call.arg.factory = "Switch"
    /\ Len(call.arg.targets.cases) = MaxCases
    /\ Cardinality(Range(call.arg.targets.cases)) >= 2
    /\ Len(call.arg.to) = MaxPrior
    /\ Len(call.ret) = MaxPrior + MaxCases + 1

\* ---------------------------------------------------------------- C17

\* C17: AppendSuccessors aborts exactly when the operation of the terminator
\* is none of OpJump, OpBranch, OpSwitch, OpReturn, OpYield, OpAwait and
\* OpUnreachable, which are exactly the codes for which Terminator() is true.
C17_AbortsIffNotTerminator ==
    LET seven == {OpJump, OpBranch, OpSwitch, OpReturn, OpYield, OpAwait, OpUnreachable}
    IN /\ \A o \in OpCodes : Terminator(o) <=> o \in seven
       /\ call.method = "AppendSuccessors" =>
            /\ call.ret = NoSlice <=> call.arg.op \notin seven
            /\ call.ret = NoSlice <=> pc = "aborted"

\* AppendSuccessors was called on the zero Terminator and aborted.
C17_Witness ==
    /\ pc = "aborted"
    /\ call.method = "AppendSuccessors"
    /\ call.arg.op = opInvalid
    /\ call.ret = NoSlice

\* ---------------------------------------------------------------- C18

\* C18: for every operation code Value() and Terminator() are not both true,
\* Valid() is true iff exactly one of them is, and opInvalid, opEndValues,
\* opEndTerminators and every code above opEndTerminators or below opInvalid
\* are not valid.
C18_Classification ==
    call.method = "Op" =>
        LET o == call.arg
            r == call.ret
        IN /\ ~(r.Value /\ r.Terminator)
           /\ r.Valid <=> (r.Value # r.Terminator)
           /\ (o \in {opInvalid, opEndValues, opEndTerminators}
                    \/ o > opEndTerminators \/ o < opInvalid) => ~r.Valid

\* The code that splits values from terminators was classified.
C18_Witness ==
    /\ call.method = "Op"
    /\ call.arg = opEndValues
    /\ ~call.ret.Valid

\* ---------------------------------------------------------------- C19

FirstOrder(S) == CHOOSE order \in Orders(S) : TRUE

RECURSIVE TableInFirstOrder(_, _)
\* The table of the run of FindDominators, from table tt and worklist s on,
\* in which every predecessor set is enumerated in its FirstOrder.
TableInFirstOrder(tt, s) ==
    IF LIFO_Empty(s)
    THEN tt
    ELSE LET block == LIFO_Peek(s)
             r == AnalyzeBlock(tt, preds, block, FirstOrder(Lookup(preds, block)))
         IN TableInFirstOrder(r.t, FlowPush(LIFO_Next(s), block, r.changed))

\* C20 as stated: for a given graph, start block and predecessor table every
\* run of FindDominators returns the same table, whatever the order in which
\* AnalyzeBlock enumerates the predecessors of a block; so every run returns
\* the table of the run that enumerates each set in one fixed order.
C20_OrderIndependent ==
    DominatorsDone => t = TableInFirstOrder(EmptyMap, LIFO_Add(newBlockLIFO, start))

\* ---------------------------------------------------------------- C21

\* The loops of the table doms: tail -> head edges whose head is among the
\* dominators the table gives the tail.
LoopsOfTable(doms) ==
    {lp \in [Head : DOMAIN term, Tail : DOMAIN doms] :
        Edge(lp.Tail, lp.Head) /\ lp.Head \in doms[lp.Tail]}

\* C21: the slice FindNaturalLoops returns starts with the elements of "to",
\* unchanged and in order, and goes on with loops it found in the table and
\* nothing else; the table is as it was handed in.
C21_AppendsOnly ==
    (LoopsDone /\ call.method = "FindNaturalLoops") =>
        LET to == call.arg.to
        IN /\ Len(loops) >= Len(to)
           /\ SubSeq(loops, 1, Len(to)) = to
           /\ {loops[i] : i \in (Len(to) + 1)..Len(loops)} = LoopsOfTable(t)
           /\ t = call.arg.doms

\* FindNaturalLoops returned a slice that holds what it was handed, as many
\* loops as are tried, and a loop found after them.
C21_Witness ==
    /\ pc = "FindNaturalLoopsDone"
    /\ call.method = "FindNaturalLoops"
    /\ Len(call.arg.to) = MaxPrior
    /\ Len(loops) > MaxPrior

\* ---------------------------------------------------------------- C22

\* C22: an append of an instruction or of a terminator through a Builder
\* whose block has a terminator aborts and leaves every block as it was; so a
\* terminator once assigned is never assigned again.
C22_ClosedStaysClosed ==
    [][/\ (call'.method \in {"appendInstruction", "appendTerminator"}
            /\ blocks[builder.block].Terminator # NilTerminator) =>
                /\ pc' = "aborted"
                /\ blocks' = blocks
       /\ \A b \in DOMAIN blocks :
            blocks[b].Terminator # NilTerminator =>
                blocks'[b].Terminator = blocks[b].Terminator]_vars

\* An instruction was appended to a block that held an instruction and a
\* terminator, and the program aborted.
C22_Witness ==
    /\ pc = "aborted"
    /\ call.method = "appendInstruction"
    /\ blocks[builder.block].Terminator # NilTerminator
    /\ Len(blocks[builder.block].Instructions) >= 1

\* ---------------------------------------------------------------- C23

\* C23 as stated: after builder.SetBlock(b2) the builder's Block() is b2, and
\* an append through the builder that follows changes b2 and no other block.
C23_SetBlockRetargets ==
    [][/\ call'.method = "SetBlock" =>
            /\ call'.ret = call'.arg
            /\ Builder_Block(builder') = call'.arg
       /\ (call.method = "SetBlock"
            /\ call'.method \in {"appendInstruction", "appendTerminator"}
            /\ pc' # "aborted") =>
                /\ blocks'[call.arg] # blocks[call.arg]
                /\ \A b \in (DOMAIN blocks) \ {call.arg} : blocks'[b] = blocks[b]]_vars

\* ---------------------------------------------------------------- C24

\* C24 as stated: when b.AddReachable(set) returns for a set that was empty,
\* the set is exactly the blocks reachable from b, b included.
C24_ReachableSet == pc = "AddReachableDone" => reached = Reachable

\* ---------------------------------------------------------------- C25

\* The blocks that are in every set of SS; none when SS is empty.
InterAll(SS) == {x \in UNION SS : \A S \in SS : x \in S}

\* The intersection of the sets tt holds for the predecessors of block that
\* have an entry in tt, plus block.
InterOfPreds(tt, block) ==
    InterAll({tt[p] : p \in Lookup(preds, block) \cap DOMAIN tt}) \cup {block}

\* C25 as stated: after every AnalyzeBlock visit of a block its set is the
\* intersection of the sets of its predecessors that have an entry, plus the
\* block; the entries are read either as they were when the visit began or
\* as they are when it ends.
C25_IntersectionPlusSelf ==
    [][(pc = "FindDominators" /\ pc' = "FindDominators" /\ ~LIFO_Empty(q)) =>
        LET block == LIFO_Peek(q)
        IN \/ t'[block] = InterOfPreds(t, block)
           \/ t'[block] = InterOfPreds(t', block)]_vars

\* ---------------------------------------------------------------- C26

\* C26: whenever FindDominators is about to visit a block, whatever the order
\* of the range over its predecessors, AnalyzeBlock returns true exactly when
\* the block's set after the visit is not the set before it (the empty set
\* of a block without an entry).
C26_ChangedIffDiffers ==
    (pc = "FindDominators" /\ ~LIFO_Empty(q)) =>
        LET block == LIFO_Peek(q)
        IN \A order \in Orders(Lookup(preds, block)) :
            LET r == AnalyzeBlock(t, preds, block, order)
            IN r.changed <=> (r.t[block] # Lookup(t, block))

\* ---------------------------------------------------------------- C27

\* C27: FindDominators, once entered, returns: the worklist of its
\* ForwardDataFlow becomes empty after finitely many visits.
C27_Terminates == (pc = "FindDominators") ~> (pc = "FindNaturalLoops")

\* FindDominators has returned on the graph with a loop back to the start
\* block around an inner loop.
C27_Witness ==
    /\ pc = "FindNaturalLoops"
    /\ term = SpinLoop
    /\ start = "entry"
    /\ DOMAIN t = DOMAIN term

\* ---------------------------------------------------------------- C28

RECURSIVE Fresh(_, _)
\* The blocks of the sequence bs that are not in the set have, each once, in
\* the order of their first occurrence.
Fresh(bs, have) ==
    IF bs = <<>>
    THEN <<>>
    ELSE IF Head(bs) \in have
    THEN Fresh(Tail(bs), have)
    ELSE <<Head(bs)>> \o Fresh(Tail(bs), have \cup {Head(bs)})

\* C28: a visit of ForwardDataFlow that reports a change leaves the worklist
\* as the blocks that were below the visited one, unmoved, with the successors
\* that were not among them on top, the first in terminator order topmost: it
\* is visited next.
C28_NewSpanReversed ==
    [][(\/ pc = "ForwardDataFlowAny" /\ pc' = pc /\ changeCount' # changeCount
        \/ pc = "ForwardDataFlowAlways" /\ pc' = pc /\ ~LIFO_Empty(q)) =>
        LET block == LIFO_Peek(q)
            rest == SubSeq(q.items, 1, Len(q.items) - 1)
            span == Fresh(Successors(block), Range(rest))
        IN /\ q'.items = rest \o Reverse(span)
           /\ SubSeq(q'.items, 1, Len(rest)) = rest
           /\ span # <<>> => LIFO_Peek(q') = span[1]]_vars

\* b1 = Branch(b2, b3) was visited, then b2 = Branch(b1, b2) with b3 waiting:
\* b3 is where it was, b2 and b1 are above it, b1 on top.
C28_Witness ==
    /\ term = TwoBranches
    /\ pc = "ForwardDataFlowAny"
    /\ q.items = <<"b3", "b2", "b1">>
    /\ LookupCount(changeCount, "b1") < LookupCount(schedule, "b1")
    /\ LookupCount(changeCount, "b2") < LookupCount(schedule, "b2")

\* ---------------------------------------------------------------- C29

\* C29: ForwardDataFlow starts with only the start block in its worklist and
\* visits it first; every block visited is reachable from start; a visit that
\* reports no change only takes the visited block off the worklist; so when
\* the first visit of start reports no change, start is the only block visited
\* and it is visited once.
C29_StartFirst ==
    /\ [](/\ calls = <<>> => (pc = "ForwardDataFlow" /\ q.items = <<start>>)
          /\ calls # <<>> => calls[1] = start
          /\ Range(calls) \subseteq Reachable
          /\ LookupCount(schedule, start) = 0 => Len(calls) <= 1)
    /\ [][(Len(calls') > Len(calls) /\ changeCount' = changeCount) =>
            q'.items = SubSeq(q.items, 1, Len(q.items) - 1)]_vars

\* The first visit of a start block with successors reported no change, and
\* ForwardDataFlow has returned.
C29_Witness ==
    /\ pc = "done"
    /\ LookupCount(schedule, start) = 0
    /\ Successors(start) # <<>>
    /\ calls = <<start>>

\* ---------------------------------------------------------------- C30

\* C30: every block FindPredecessors pops from its worklist is reachable from
\* start and was not popped before, and when it returns every block reachable
\* from start has been popped.
C30_PoppedOnce ==
    /\ [][(pc = "FindPredecessors" /\ pc' = pc /\ ~LIFO_Empty(q)) =>
            LET pred == LIFO_Peek(q)
            IN /\ pred \notin seen
               /\ pred \in Reachable
               /\ seen' = seen \cup {pred}]_vars
    /\ [](PredsDone => seen = Reachable)

\* FindPredecessors has returned on a graph with a block that jumps to
\* itself, a terminator naming a block twice, a cycle through start and a
\* block that is not reachable.
C30_Witness ==
    /\ pc = "FindDominators"
    /\ seen = Reachable
    /\ \E b \in Reachable : Edge(b, b)
    /\ \E b \in Reachable : Len(Successors(b)) > Cardinality(Range(Successors(b)))
    /\ \E b \in Reachable \ {start} : Edge(b, start)
    /\ Reachable # DOMAIN term

\* ---------------------------------------------------------------- C31

\* C31: an Add of a block the queue does not hold puts it behind every block
\* held, an Add of a block held changes nothing, and Next on a queue that
\* holds blocks returns the one in front and leaves the others in their
\* order; so Next returns the blocks in the order of their insertion. An Add
\* to an empty queue, drained or new, makes its block the next one returned.
C31_FifoOrder ==
    [][/\ call'.method = "FIFO.Add" =>
            fifo'.chain = (IF call'.arg \in Range(fifo.chain)
                           THEN fifo.chain
                           ELSE Append(fifo.chain, call'.arg))
       /\ (call'.method = "FIFO.Add" /\ fifo.chain = <<>>) =>
            /\ ~FIFO_Empty(fifo')
            /\ FIFO_NextBlock(fifo') = call'.arg
       /\ (call'.method = "FIFO.Next" /\ fifo.chain # <<>>) =>
            /\ call'.ret = fifo.chain[1]
            /\ fifo'.chain = Tail(fifo.chain)]_vars

\* Next returned the block in front of a full queue and left the others,
\* the one added last still last.
C31_Witness ==
    /\ pc = "worklists"
    /\ call.method = "FIFO.Next"
    /\ call.ret \in GenBlocks
    /\ Len(fifo.chain) = NumBlocks - 1
    /\ call.ret \notin Range(fifo.chain)
    /\ fifo.end = Len(fifo.chain)

\* ---------------------------------------------------------------- C32

\* C32 as stated: Store(val, ref) returns a node with operation OpStore whose
\* arguments are val and ref, in this order.
C32_StoreArgs ==
    call.method = "Store" =>
        /\ call.ret.op = OpStore
        /\ call.ret.args = call.arg

\* ---------------------------------------------------------------- C33

\* C33: while FindDominators runs only blocks reachable from start have an
\* entry in its table; the visit of a block without an entry reports a change
\* whatever the order of the range over its predecessors; and the table it
\* returns has an entry for every block reachable from start.
C33_KeysReachable ==
    /\ DOMAIN t \subseteq Reachable
    /\ (pc = "FindDominators" /\ ~LIFO_Empty(q) /\ LIFO_Peek(q) \notin DOMAIN t) =>
            \A order \in Orders(Lookup(preds, LIFO_Peek(q))) :
                LET r == AnalyzeBlock(t, preds, LIFO_Peek(q), order)
                IN r.changed /\ LIFO_Peek(q) \in DOMAIN r.t
    /\ DominatorsDone => DOMAIN t = Reachable

\* FindDominators returned a table of two entries or more on a graph with a
\* block that start does not reach.
C33_Witness ==
    /\ pc = "FindNaturalLoops"
    /\ Cardinality(DOMAIN t) >= 2
    /\ DOMAIN t = Reachable
    /\ Reachable # DOMAIN term

\* ---------------------------------------------------------------- C34

\* C34: on a graph without a cycle the loops FindNaturalLoops returns after
\* FindPredecessors and FindDominators are none.
C34_AcyclicNoLoops == (LoopsDone /\ Acyclic) => loops = <<>>

\* The pipeline ended on a graph without a cycle in which start reaches
\* every block and two edges join in one block.
C34_Witness ==
    /\ pc = "FindNaturalLoopsDone"
    /\ Acyclic
    /\ Reachable = DOMAIN term
    /\ \E b \in DOMAIN preds : Cardinality(preds[b]) >= 2
    /\ loops = <<>>

====
